---- MODULE Spec2Model ----
(***************************************************************************)
(* A model of the tag manager's incremental index maintenance.             *)
(*                                                                         *)
(* Graph variant (TagTreeDataProvider.ts lines 1-313): nodeIndex,          *)
(* nameToEdgesMap and edgeToSourcesMap, driven by the initial scan and by  *)
(* save / create / delete / rename events.  An update of a file suspends   *)
(* once, at its file read (line 197); the part before the read and the     *)
(* part after it are separate atomic steps, and the read itself completes  *)
(* at some point in between.                                               *)
(*                                                                         *)
(* Tag variant (TagTreeDataProvider.ts lines 315-528): tagToTagNodeMap and *)
(* filePathTofileNodeMap, driven by the initial scan and by save events.   *)
(*                                                                         *)
(* Domain: node names are plain identifiers (no "->", no ".", no name of   *)
(* a property of Object.prototype); the event handlers run with `this`     *)
(* bound to the provider.                                                  *)
(***************************************************************************)
EXTENDS Integers, Sequences, FiniteSets, Bags, TLC

VARIABLES
  disk,              \* file system: path -> <<>> (no file) or <<content>>
  nodeIndex,         \* name -> Node                       (line 44)
  nameToEdgesMap,    \* name -> Edges last extracted       (line 45)
  edgeToSourcesMap,  \* edge -> names of declaring files   (line 46)
  pending,           \* updates suspended at `await extractEdgesFromFile`
  scanned,           \* initGraph has dispatched its updates
  events,            \* number of file-system events and scans so far
  tdisk,             \* tag variant: file system
  tagToTagNodeMap,       \* tag -> TagNode                 (line 354)
  filePathTofileNodeMap, \* path -> FileNode               (line 363)
  tpending,          \* tag updates suspended at `await getTagsFromFileOnFileSystem`
  tscanned,          \* initTags has dispatched its updates
  tevents,           \* tag variant: number of file-system events and scans so far
  last               \* the step just taken: operation, path, notifications fired, exception

gvars == <<disk, nodeIndex, nameToEdgesMap, edgeToSourcesMap, pending, scanned>>
tvars == <<tdisk, tagToTagNodeMap, filePathTofileNodeMap, tpending, tscanned, tevents>>
vars == <<disk, nodeIndex, nameToEdgesMap, edgeToSourcesMap, pending, scanned, events,
          tdisk, tagToTagNodeMap, filePathTofileNodeMap, tpending, tscanned, tevents,
          last>>

(***************************************************************************)
(* Bounds                                                                  *)
(***************************************************************************)
\* file-system events (and scans) in one behaviour
MaxEvents == 3
\* file-system events (and scans) in one behaviour of the two-file workspace
MaxDeepEvents == 4
\* updates of the graph variant that may be suspended at their read at once
MaxPending == 2
\* file-system events (and scans) in one behaviour of the tag variant
MaxTagEvents == 3
\* updates of the tag variant that may be suspended at their read at once
MaxTagPending == 2

(***************************************************************************)
(* Generic helpers: JS objects as functions with a finite domain, JS Sets  *)
(* and arrays as sequences (a Set iterates in insertion order).            *)
(***************************************************************************)
Range(s) == {s[i] : i \in 1..Len(s)}

Put(obj, key, value) ==
  [k \in (DOMAIN obj) \cup {key} |-> IF k = key THEN value ELSE obj[k]]

\* lodash unset(object, key)
unset(obj, key) == [k \in (DOMAIN obj) \ {key} |-> obj[k]]

\* lodash has(object, key)
has(obj, key) == key \in DOMAIN obj

\* lodash pull(array, value): removes every occurrence
pull(array, value) ==
  LET keep(x) == x # value IN SelectSeq(array, keep)

\* Set.prototype.add on an insertion-ordered set
SetAdd(set, elem) == IF elem \in Range(set) THEN set ELSE Append(set, elem)

\* a value that may be undefined: <<>> is undefined, <<v>> is v
Undefined == <<>>
Some(v) == <<v>>
IsDefined(m) == m # <<>>
Get(obj, key) == IF has(obj, key) THEN Some(obj[key]) ELSE Undefined

Perms(S) == {s \in [1..Cardinality(S) -> S] : Range(s) = S}

(***************************************************************************)
(* Paths and file contents                                                 *)
(***************************************************************************)
Path(dir, base, ext) == [dir |-> dir, base |-> base, ext |-> ext]

PathA == Path(<<"ws", "src">>, "a", "ts")          \* /ws/src/a.ts
PathB == Path(<<"ws", "src">>, "b", "md")          \* /ws/src/b.md
PathA2 == Path(<<"ws", "src", "lib">>, "a", "ts")  \* /ws/src/lib/a.ts
PathDoc == Path(<<"ws", "docs">>, "c", "ts")       \* /ws/docs/c.ts
NoPath == Path(<<>>, "", "")

Paths == {PathA, PathB, PathA2, PathDoc}

\* ./utils/getBasename: the file's base name without its extension
getBasename(filepath) == filepath.base

matchesWatchedFileExtensions(filepath) ==
  filepath.ext \in {"js", "jsx", "ts", "tsx", "md", "txt"}

\* ignoreFile without the test of the path
ignoreFileByExtension(filepath) == ~matchesWatchedFileExtensions(filepath)

ignoreFile(filepath) ==
  \/ ~("src" \in Range(filepath.dir))
  \/ ~matchesWatchedFileExtensions(filepath)

\* vscode.workspace.findFiles("**/src/**", "**/node_modules/**")
findFiles(d) ==
  {p \in DOMAIN d : /\ IsDefined(d[p])
                 /\ "src" \in Range(p.dir)
                 /\ ~("node_modules" \in Range(p.dir))}

\* A file's content, as far as the extractor sees it: the matches of
\* /\[([^\]]*->[^\]]*)\]/g in order, each already split at "->" and trimmed.
KXY == << <<"x", "y">> >>                       \* [x->y]
KOutB == << <<"", "b">> >>                      \* [->b]
KOutBXY == << <<"", "b">>, <<"x", "y">> >>      \* [->b] [x->y]

Contents == {KXY, KOutB, KOutBXY}

ContentsOf(p) == IF p = PathDoc THEN {KXY} ELSE Contents

(***************************************************************************)
(* Edges                                                                   *)
(***************************************************************************)
\* the template literal `${from}->${to}`
EdgeString(from, to) == <<from, "->", to>>

\* edge.split("->"), of which the code takes the first two elements
SplitEdge(edge) ==
  LET names(x) == x # "->" IN SelectSeq(edge, names)

\* the segment itself, also when it is empty
OrElseKeepsEmpty(s, dflt) == s

\* from || baseName
OrElse(s, dflt) == IF s = "" THEN dflt ELSE s

RECURSIVE extractMatches(_, _, _)
extractMatches(baseName, matches, edges) ==
  IF matches = <<>> THEN edges
  ELSE LET split == Head(matches)
           next == IF Len(split) = 3
                   THEN SetAdd(SetAdd(edges, EdgeString(baseName, split[3])),
                               EdgeString(split[3], baseName))
                   ELSE SetAdd(edges, EdgeString(OrElse(split[1], baseName),
                                                 OrElse(split[2], baseName)))
       IN extractMatches(baseName, Tail(matches), next)

\* extractEdgesFromFile, given the content the read returned
extractEdgesFromFile(filepath, content) ==
  extractMatches(getBasename(filepath), content, <<>>)

difference(setA, setB) ==
  LET keep(e) == e \notin Range(setB) IN SelectSeq(setA, keep)

(***************************************************************************)
(* Nodes                                                                   *)
(***************************************************************************)
TagNode(name) == [name |-> name, isStarred |-> FALSE, in |-> <<>>, out |-> <<>>]

FileNode(uri, name) ==
  [uri |-> uri, name |-> name, isStarred |-> FALSE, in |-> <<>>, out |-> <<>>]

isFileNode(node) == "uri" \in DOMAIN node

WithOut(node, out) == [node EXCEPT !.out = out]
WithIn(node, in) == [node EXCEPT !.in = in]

\* an index state threaded through the edge loops: the two maps, the value
\* deleteSourceForEdges returns, and whether the loop threw
IndexState(ni, e2s) ==
  [nodeIndex |-> ni, edgeToSourcesMap |-> e2s, shouldUpdate |-> FALSE, raised |-> FALSE]

\* addSourceForEdges' iteration with the source set replaced instead of
\* extended when the edge is already known
addSourceForEdgeOverwrites(source, edge, st) ==
  IF has(st.edgeToSourcesMap, edge)
  THEN [st EXCEPT !.edgeToSourcesMap[edge] = {source}]
  ELSE LET from == SplitEdge(edge)[1]
           to == SplitEdge(edge)[2]
           e2s == Put(st.edgeToSourcesMap, edge, {source})
           ni1 == IF has(st.nodeIndex, from) THEN st.nodeIndex
                  ELSE Put(st.nodeIndex, from, TagNode(from))
           ni2 == IF has(ni1, to) THEN ni1 ELSE Put(ni1, to, TagNode(to))
           ni3 == [ni2 EXCEPT ![from] = WithOut(@, Append(@.out, to))]
           ni4 == [ni3 EXCEPT ![to] = WithIn(@, Append(@.in, from))]
       IN [st EXCEPT !.edgeToSourcesMap = e2s, !.nodeIndex = ni4]

\* addSourceForEdges, one iteration of its forEach
addSourceForEdge(source, edge, st) ==
  IF has(st.edgeToSourcesMap, edge)
  THEN [st EXCEPT !.edgeToSourcesMap[edge] = @ \cup {source}]
  ELSE LET from == SplitEdge(edge)[1]
           to == SplitEdge(edge)[2]
           e2s == Put(st.edgeToSourcesMap, edge, {source})
           ni1 == IF has(st.nodeIndex, from) THEN st.nodeIndex
                  ELSE Put(st.nodeIndex, from, TagNode(from))
           ni2 == IF has(ni1, to) THEN ni1 ELSE Put(ni1, to, TagNode(to))
           ni3 == [ni2 EXCEPT ![from] = WithOut(@, Append(@.out, to))]
           ni4 == [ni3 EXCEPT ![to] = WithIn(@, Append(@.in, from))]
       IN [st EXCEPT !.edgeToSourcesMap = e2s, !.nodeIndex = ni4]

RECURSIVE addSourceForEdges(_, _, _)
addSourceForEdges(source, edges, st) ==
  IF edges = <<>> THEN st
  ELSE addSourceForEdges(source, Tail(edges), addSourceForEdge(source, Head(edges), st))

\* deleteSourceForEdges' iteration without line 272: the edge stays in the
\* target's `in` list
deleteSourceForEdgeKeepsIn(source, edge, st) ==
  IF ~has(st.edgeToSourcesMap, edge)
  THEN [st EXCEPT !.raised = TRUE]
  ELSE LET edgeSources == st.edgeToSourcesMap[edge] \ {source}
       IN IF edgeSources # {}
          THEN [st EXCEPT !.edgeToSourcesMap[edge] = edgeSources]
          ELSE LET from == SplitEdge(edge)[1]
                   to == SplitEdge(edge)[2]
                   e2s == unset(st.edgeToSourcesMap, edge)
                   s1 == [st EXCEPT !.shouldUpdate = TRUE, !.edgeToSourcesMap = e2s]
               IN IF ~has(s1.nodeIndex, from)
                  THEN [s1 EXCEPT !.raised = TRUE]
                  ELSE [s1 EXCEPT !.nodeIndex =
                          [s1.nodeIndex EXCEPT ![from] = WithOut(@, pull(@.out, to))]]

\* deleteSourceForEdges, one iteration of its forEach; reading a property of
\* undefined throws a TypeError, which ends the loop
deleteSourceForEdge(source, edge, st) ==
  IF ~has(st.edgeToSourcesMap, edge)
  THEN [st EXCEPT !.raised = TRUE]                          \* line 266
  ELSE LET edgeSources == st.edgeToSourcesMap[edge] \ {source}
       IN IF edgeSources # {}
          THEN [st EXCEPT !.edgeToSourcesMap[edge] = edgeSources]
          ELSE LET from == SplitEdge(edge)[1]
                   to == SplitEdge(edge)[2]
                   e2s == unset(st.edgeToSourcesMap, edge)
                   s1 == [st EXCEPT !.shouldUpdate = TRUE, !.edgeToSourcesMap = e2s]
               IN IF ~has(s1.nodeIndex, from)
                  THEN [s1 EXCEPT !.raised = TRUE]          \* line 271
                  ELSE LET ni1 == [s1.nodeIndex EXCEPT
                                     ![from] = WithOut(@, pull(@.out, to))]
                       IN IF ~has(ni1, to)
                          THEN [s1 EXCEPT !.nodeIndex = ni1, !.raised = TRUE]  \* line 272
                          ELSE [s1 EXCEPT !.nodeIndex =
                                  [ni1 EXCEPT ![to] = WithIn(@, pull(@.in, from))]]

RECURSIVE deleteSourceLoop(_, _, _)
deleteSourceLoop(source, edges, st) ==
  IF edges = <<>> \/ st.raised THEN st
  ELSE deleteSourceLoop(source, Tail(edges), deleteSourceForEdge(source, Head(edges), st))

\* deleteSourceForEdges(source, edges); `edges` may be undefined, and then
\* edges.forEach throws before anything changes
deleteSourceForEdges(source, edges, st) ==
  IF ~IsDefined(edges) THEN [st EXCEPT !.raised = TRUE]     \* line 264
  ELSE deleteSourceLoop(source, edges[1], st)

(***************************************************************************)
(* The step just taken                                                     *)
(***************************************************************************)
Step(op, path, fired, raised) ==
  [op |-> op, path |-> path, fired |-> fired, raised |-> raised, kind |-> "",
   content |-> <<>>, again |-> FALSE, solo |-> FALSE]

\* the step that ends an update, with the event that had dispatched the update
ResumeStep(u, path, fired, raised) ==
  [op |-> "resume", path |-> path, fired |-> fired, raised |-> raised, kind |-> u.kind,
   content |-> u.content,
   again |-> (last.op = "read" /\ last.path = path /\ last.again),
   solo |-> (last.op = "read" /\ last.path = path /\ last.solo)]

\* the save of a file, with the content written; `again` when the step before
\* ended an update of the same file that had read the same content; `solo`
\* when the step before ended an update of the same file by an exception and
\* no update is in flight as the save happens (and then on the read and the
\* resume of its update when they are the very next steps)
SaveStep(path, content) ==
  [Step("save", path, 0, FALSE) EXCEPT
     !.content = content,
     !.again = (last.op = "resume" /\ last.path = path /\ last.content = content),
     !.solo = (pending = EmptyBag /\ tpending = EmptyBag /\ last.raised
               /\ last.path = path)]

\* the completion of a read; `again` when the step before was such a save of
\* the file
ReadStep(path) ==
  [Step("read", path, 0, FALSE) EXCEPT
     !.again = (last.op = "save" /\ last.path = path /\ last.again),
     !.solo = (last.op = "save" /\ last.path = path /\ last.solo)]

(***************************************************************************)
(* Graph variant: operations                                               *)
(***************************************************************************)
\* updateGraphOnFileChange up to its await (lines 174-197), applied to the
\* record <<nodeIndex, nameToEdgesMap, pending>>
\* the event that dispatched an update: its kind ("scan", "create", "rename" or
\* "save") and, for a rename, the old path
Origin(kind, old) == [kind |-> kind, old |-> old]

\* the locals of a suspended update, the state of its read, its origin, and
\* whether no other update was in flight when it began
Suspended(uri, origin, prevEdges, shouldUpdate, alone) ==
  [uri |-> uri, kind |-> origin.kind, old |-> origin.old, prevEdges |-> prevEdges,
   shouldUpdate |-> shouldUpdate, read |-> "pending", content |-> <<>>,
   alone |-> alone]

Suspend(bag, u) == bag (+) SetToBag({u})
Unsuspend(bag, u) == bag (-) SetToBag({u})

updateStart(uri, origin, g) ==
  IF ignoreFile(uri) THEN g
  ELSE LET basename == getBasename(uri)
           fresh == ~has(g.nodeIndex, basename)
           ni == IF fresh THEN Put(g.nodeIndex, basename, FileNode(uri, basename))
                 ELSE g.nodeIndex
           n2e == IF fresh THEN Put(g.nameToEdgesMap, basename, <<>>)
                  ELSE g.nameToEdgesMap
       IN [nodeIndex |-> ni, nameToEdgesMap |-> n2e,
           pending |-> Suspend(g.pending,
                               Suspended(uri, origin, Get(n2e, basename), fresh,
                                         g.pending = EmptyBag))]

Current == [nodeIndex |-> nodeIndex, nameToEdgesMap |-> nameToEdgesMap, pending |-> pending]

RECURSIVE updateStartAll(_, _)
updateStartAll(uriList, g) ==
  IF uriList = <<>> THEN g
  ELSE updateStartAll(Tail(uriList), updateStart(Head(uriList), Origin("scan", NoPath), g))

\* one more file-system event (or scan) happens, starting at most n updates
Event(n) == /\ events' = events + 1
            /\ BagCardinality(pending) + n <= MaxPending

\* initGraph: findFiles resolves and every file's update runs to its await
InitGraph ==
  /\ ~scanned
  /\ Event(Cardinality({p \in findFiles(disk) : ~ignoreFile(p)}))
  /\ \E uriList \in Perms(findFiles(disk)) :
       LET g == updateStartAll(uriList, Current)
       IN /\ nodeIndex' = g.nodeIndex
          /\ nameToEdgesMap' = g.nameToEdgesMap
          /\ pending' = g.pending
  /\ scanned' = TRUE
  /\ last' = Step("initGraph", NoPath, 0, FALSE)
  /\ UNCHANGED <<disk, edgeToSourcesMap>>
  /\ UNCHANGED tvars

StartUpdate(uri, kind) ==
  LET g == updateStart(uri, Origin(kind, NoPath), Current)
  IN /\ nodeIndex' = g.nodeIndex
     /\ nameToEdgesMap' = g.nameToEdgesMap
     /\ pending' = g.pending

\* the file is saved with `content`; onDidSaveTextDocument
SaveFile(uri, content) ==
  /\ IsDefined(disk[uri])
  /\ Event(1)
  /\ disk' = [disk EXCEPT ![uri] = Some(content)]
  /\ StartUpdate(uri, "save")
  /\ last' = SaveStep(uri, content)
  /\ UNCHANGED <<edgeToSourcesMap, scanned>>
  /\ UNCHANGED tvars

\* the file is created with `content`; onDidCreateFiles
CreateFile(uri, content) ==
  /\ ~IsDefined(disk[uri])
  /\ Event(1)
  /\ disk' = [disk EXCEPT ![uri] = Some(content)]
  /\ StartUpdate(uri, "create")
  /\ last' = Step("create", uri, 0, FALSE)
  /\ UNCHANGED <<edgeToSourcesMap, scanned>>
  /\ UNCHANGED tvars

\* updateGraphOnFileDelete (lines 216-227) as a result record
updateGraphOnFileDelete(uri, ni, n2e, e2s) ==
  IF ignoreFile(uri)
  THEN [nodeIndex |-> ni, nameToEdgesMap |-> n2e, edgeToSourcesMap |-> e2s,
        fired |-> 0, raised |-> FALSE]
  ELSE LET basename == getBasename(uri)
           st == deleteSourceForEdges(basename, Get(n2e, basename), IndexState(ni, e2s))
       IN [nodeIndex |-> st.nodeIndex,
           nameToEdgesMap |-> IF st.raised THEN n2e ELSE unset(n2e, basename),
           edgeToSourcesMap |-> st.edgeToSourcesMap,
           fired |-> IF st.raised THEN 0 ELSE 1,
           raised |-> st.raised]

\* the file is deleted; onDidDeleteFiles
DeleteFile(uri) ==
  /\ IsDefined(disk[uri])
  /\ Event(0)
  /\ disk' = [disk EXCEPT ![uri] = Undefined]
  /\ LET d == updateGraphOnFileDelete(uri, nodeIndex, nameToEdgesMap, edgeToSourcesMap)
     IN /\ nodeIndex' = d.nodeIndex
        /\ nameToEdgesMap' = d.nameToEdgesMap
        /\ edgeToSourcesMap' = d.edgeToSourcesMap
        /\ last' = Step("delete", uri, d.fired, d.raised)
  /\ UNCHANGED <<pending, scanned>>
  /\ UNCHANGED tvars

\* the file is renamed; onDidRenameFiles: the delete of the old name, then the
\* update of the new one up to its await, unless the delete threw
RenameFile(oldUri, newUri) ==
  /\ oldUri # newUri
  /\ Event(1)
  /\ IsDefined(disk[oldUri])
  /\ ~IsDefined(disk[newUri])
  /\ disk' = [disk EXCEPT ![oldUri] = Undefined, ![newUri] = disk[oldUri]]
  /\ LET d == updateGraphOnFileDelete(oldUri, nodeIndex, nameToEdgesMap, edgeToSourcesMap)
         g == IF d.raised
              THEN [nodeIndex |-> d.nodeIndex, nameToEdgesMap |-> d.nameToEdgesMap,
                    pending |-> pending]
              ELSE updateStart(newUri, Origin("rename", oldUri),
                               [nodeIndex |-> d.nodeIndex,
                                nameToEdgesMap |-> d.nameToEdgesMap,
                                pending |-> pending])
     IN /\ nodeIndex' = g.nodeIndex
        /\ nameToEdgesMap' = g.nameToEdgesMap
        /\ pending' = g.pending
        /\ edgeToSourcesMap' = d.edgeToSourcesMap
        /\ last' = Step("rename", oldUri, d.fired, d.raised)
  /\ UNCHANGED scanned
  /\ UNCHANGED tvars


\* fs.promises.readFile of a suspended update completes with the file's content
ReadFile(u) ==
  /\ BagIn(u, pending)
  /\ u.read = "pending"
  /\ IsDefined(disk[u.uri])
  /\ pending' = Suspend(Unsuspend(pending, u),
                        [u EXCEPT !.read = "done", !.content = disk[u.uri][1]])
  /\ last' = ReadStep(u.uri)
  /\ UNCHANGED <<disk, nodeIndex, nameToEdgesMap, edgeToSourcesMap, scanned>>
  /\ UNCHANGED events
  /\ UNCHANGED tvars

\* fs.promises.readFile fails and the cache entry of the file is dropped
ReadFileFailsDropsCache(u) ==
  /\ BagIn(u, pending)
  /\ u.read = "pending"
  /\ pending' = Unsuspend(pending, u)
  /\ last' = [ResumeStep(u, u.uri, 0, TRUE) EXCEPT !.op = "readFails"]
  /\ nameToEdgesMap' = unset(nameToEdgesMap, getBasename(u.uri))
  /\ UNCHANGED <<disk, nodeIndex, edgeToSourcesMap, scanned>>
  /\ UNCHANGED events
  /\ UNCHANGED tvars

\* fs.promises.readFile fails (the file is gone, or cannot be read): the await
\* throws and the update ends there
ReadFileFails(u) ==
  /\ BagIn(u, pending)
  /\ u.read = "pending"
  /\ pending' = Unsuspend(pending, u)
  /\ last' = [ResumeStep(u, u.uri, 0, TRUE) EXCEPT !.op = "readFails"]
  /\ UNCHANGED <<disk, nodeIndex, nameToEdgesMap, edgeToSourcesMap, scanned>>
  /\ UNCHANGED events
  /\ UNCHANGED tvars

\* updateGraphOnFileChange after its await without line 198: the cache keeps
\* the edges it held
updateResumeKeepsCache(u, ni, n2e, e2s) ==
  LET basename == getBasename(u.uri)
      newEdges == extractEdgesFromFile(u.uri, u.content)
  IN IF ~IsDefined(u.prevEdges)
     THEN [nodeIndex |-> ni, nameToEdgesMap |-> n2e, edgeToSourcesMap |-> e2s,
           fired |-> 0, raised |-> TRUE]
     ELSE LET prevEdges == u.prevEdges[1]
              edgesToAdd == difference(newEdges, prevEdges)
              added == addSourceForEdges(basename, edgesToAdd, IndexState(ni, e2s))
              st == deleteSourceForEdges(basename, Some(difference(prevEdges, newEdges)),
                                         added)
              shouldUpdate == st.shouldUpdate \/ u.shouldUpdate \/ Len(edgesToAdd) > 0
          IN [nodeIndex |-> st.nodeIndex, nameToEdgesMap |-> n2e,
              edgeToSourcesMap |-> st.edgeToSourcesMap,
              fired |-> IF ~st.raised /\ shouldUpdate THEN 1 ELSE 0,
              raised |-> st.raised]

\* updateGraphOnFileChange after its await with an unconditional fire
updateResumeAlwaysFires(u, ni, n2e, e2s) ==
  LET basename == getBasename(u.uri)
      newEdges == extractEdgesFromFile(u.uri, u.content)
      n2e1 == Put(n2e, basename, newEdges)
  IN IF ~IsDefined(u.prevEdges)
     THEN [nodeIndex |-> ni, nameToEdgesMap |-> n2e1, edgeToSourcesMap |-> e2s,
           fired |-> 0, raised |-> TRUE]
     ELSE LET prevEdges == u.prevEdges[1]
              edgesToAdd == difference(newEdges, prevEdges)
              added == addSourceForEdges(basename, edgesToAdd, IndexState(ni, e2s))
              st == deleteSourceForEdges(basename, Some(difference(prevEdges, newEdges)),
                                         added)
          IN [nodeIndex |-> st.nodeIndex, nameToEdgesMap |-> n2e1,
              edgeToSourcesMap |-> st.edgeToSourcesMap,
              fired |-> IF ~st.raised THEN 1 ELSE 0,
              raised |-> st.raised]

\* updateGraphOnFileChange after its await (lines 198-213) as a result record
updateResume(u, ni, n2e, e2s) ==
  LET basename == getBasename(u.uri)
      newEdges == extractEdgesFromFile(u.uri, u.content)
      n2e1 == Put(n2e, basename, newEdges)                    \* line 198
  IN IF ~IsDefined(u.prevEdges)
     THEN [nodeIndex |-> ni, nameToEdgesMap |-> n2e1, edgeToSourcesMap |-> e2s,
           fired |-> 0, raised |-> TRUE]                      \* line 200
     ELSE LET prevEdges == u.prevEdges[1]
              edgesToAdd == difference(newEdges, prevEdges)
              added == addSourceForEdges(basename, edgesToAdd, IndexState(ni, e2s))
              st == deleteSourceForEdges(basename, Some(difference(prevEdges, newEdges)),
                                         added)
              shouldUpdate == st.shouldUpdate \/ u.shouldUpdate \/ Len(edgesToAdd) > 0
          IN [nodeIndex |-> st.nodeIndex, nameToEdgesMap |-> n2e1,
              edgeToSourcesMap |-> st.edgeToSourcesMap,
              fired |-> IF ~st.raised /\ shouldUpdate THEN 1 ELSE 0,
              raised |-> st.raised]

\* a suspended update whose read completed resumes and runs to its end
ResumeUpdate(u) ==
  /\ BagIn(u, pending)
  /\ u.read = "done"
  /\ LET r == updateResume(u, nodeIndex, nameToEdgesMap, edgeToSourcesMap)
     IN /\ nodeIndex' = r.nodeIndex
        /\ nameToEdgesMap' = r.nameToEdgesMap
        /\ edgeToSourcesMap' = r.edgeToSourcesMap
        /\ last' = ResumeStep(u, u.uri, r.fired, r.raised)
  /\ pending' = Unsuspend(pending, u)
  /\ UNCHANGED <<disk, scanned>>
  /\ UNCHANGED events
  /\ UNCHANGED tvars

(***************************************************************************)
(* Specification of the graph variant                                      *)
(***************************************************************************)
\* the workspace when the extension is activated
Disks == {d \in [Paths -> {Undefined} \cup {Some(c) : c \in Contents}] :
            /\ \A p \in Paths : IsDefined(d[p]) => d[p][1] \in ContentsOf(p)
            /\ ~IsDefined(d[PathA2])
            /\ IsDefined(d[PathDoc])}

\* the tag variant is not running
TagIdle ==
  /\ tdisk = <<>>
  /\ tagToTagNodeMap = <<>>
  /\ filePathTofileNodeMap = <<>>
  /\ tpending = EmptyBag
  /\ tscanned = FALSE
  /\ tevents = 0

GraphInit(disks) ==
  /\ disk \in disks
  /\ nodeIndex = <<>>
  /\ nameToEdgesMap = <<>>
  /\ edgeToSourcesMap = <<>>
  /\ pending = EmptyBag
  /\ scanned = FALSE
  /\ events = 0
  /\ TagIdle
  /\ last = Step("init", NoPath, 0, FALSE)

Init == GraphInit(Disks)

\* the renames that happen: within and across base names, into and out of
\* the watched files
Renames == {<<PathA, PathA2>>, <<PathA2, PathA>>, <<PathA, PathB>>, <<PathB, PathA>>,
            <<PathDoc, PathB>>, <<PathB, PathDoc>>}

Next ==
  \/ events < MaxEvents /\ InitGraph
  \/ events < MaxEvents /\ \E p \in Paths : \E c \in ContentsOf(p) : SaveFile(p, c)
  \/ events < MaxEvents /\ \E p \in Paths : \E c \in ContentsOf(p) : CreateFile(p, c)
  \/ events < MaxEvents /\ \E p \in Paths : DeleteFile(p)
  \/ events < MaxEvents /\ \E r \in Renames : RenameFile(r[1], r[2])
  \/ \E u \in BagToSet(pending) : ReadFile(u)
  \/ \E u \in BagToSet(pending) : ReadFileFails(u)
  \/ \E u \in BagToSet(pending) : ResumeUpdate(u)

Spec == Init /\ [][Next]_vars

(***************************************************************************)
(* The graph variant in a workspace of the two files a.ts and b.md, with   *)
(* longer behaviours                                                       *)
(***************************************************************************)
TwoFiles == {PathA, PathB}

DeepDisks == {d \in [Paths -> {Undefined} \cup {Some(c) : c \in Contents}] :
                \A p \in Paths \ TwoFiles : ~IsDefined(d[p])}

DeepInit == GraphInit(DeepDisks)

DeepNext ==
  \/ events < MaxDeepEvents /\ InitGraph
  \/ events < MaxDeepEvents /\ \E p \in TwoFiles : \E c \in Contents : SaveFile(p, c)
  \/ events < MaxDeepEvents /\ \E p \in TwoFiles : \E c \in Contents : CreateFile(p, c)
  \/ events < MaxDeepEvents /\ \E p \in TwoFiles : DeleteFile(p)
  \/ \E u \in BagToSet(pending) : ReadFile(u)
  \/ \E u \in BagToSet(pending) : ReadFileFails(u)
  \/ \E u \in BagToSet(pending) : ResumeUpdate(u)

SpecDeep == DeepInit /\ [][DeepNext]_vars

(***************************************************************************)
(* The initial scan alone: the two files are there, every read succeeds,   *)
(* and no event arrives                                                    *)
(***************************************************************************)
ScanDisks == {d \in DeepDisks : \A p \in TwoFiles : IsDefined(d[p])}

ScanInit == GraphInit(ScanDisks)

ScanNext ==
  \/ InitGraph
  \/ \E u \in BagToSet(pending) : ReadFile(u)
  \/ \E u \in BagToSet(pending) : ResumeUpdate(u)

SpecScan == ScanInit /\ [][ScanNext]_vars

(***************************************************************************)
(* Tag variant                                                             *)
(***************************************************************************)
PathFoo == Path(<<"ws">>, "foo", "ts")             \* /ws/foo.ts
PathBar == Path(<<"ws">>, "bar", "md")             \* /ws/bar.md
PathImg == Path(<<"ws">>, "img", "png")            \* /ws/img.png

TagPaths == {PathFoo, PathBar, PathImg}

\* A file's content, as far as getTagsFromFileOnFileSystem sees it: the first
\* groups of the matches of /#\[(.*?)\]/g, in order
TNone == <<>>
TAlpha == <<"alpha">>                              \* #[alpha]
TAlphaBeta == <<"alpha", "beta">>                  \* #[alpha] #[beta]
TBetaBeta == <<"beta", "beta">>                    \* #[beta] #[beta]

TagContents == {TNone, TAlpha, TAlphaBeta, TBetaBeta}

TagContentsOf(p) == IF p = PathImg THEN {TAlpha} ELSE TagContents

\* the tag variant's matchesWatchedFileExtensions
tagMatchesWatchedFileExtensions(filePath) == filePath.ext \in {"ts", "md", "txt"}

\* vscode.workspace.findFiles("**/*.*", "**/node_modules/**")
tagFindFiles(d) ==
  {p \in TagPaths : IsDefined(d[p]) /\ ~("node_modules" \in Range(p.dir))}

\* lodash uniq(array)
RECURSIVE uniqFrom(_, _)
uniqFrom(array, seen) ==
  IF array = <<>> THEN seen
  ELSE uniqFrom(Tail(array), SetAdd(seen, Head(array)))

uniq(array) == uniqFrom(array, <<>>)

\* getTagsFromFileOnFileSystem, given the content the read returned
getTagsFromFileOnFileSystem(content) == uniq(content)

\* lodash difference(array, values)
lodashDifference(array, values) ==
  LET keep(x) == x \notin Range(values) IN SelectSeq(array, keep)

NewTagNode(name) == [name |-> name, filePaths |-> <<>>, childTags |-> <<>>]

NewFileNode(filePath) == [filePath |-> filePath, tags |-> <<>>]

\* getTags
getTags == DOMAIN tagToTagNodeMap

\* the tagsToAdd.forEach loop (lines 414-422)
RECURSIVE addTags(_, _, _)
addTags(filePath, tags, t2n) ==
  IF tags = <<>> THEN t2n
  ELSE LET tag == Head(tags)
           t1 == IF has(t2n, tag) THEN t2n ELSE Put(t2n, tag, NewTagNode(tag))
           t2 == [t1 EXCEPT ![tag].filePaths = Append(@, filePath)]
       IN addTags(filePath, Tail(tags), t2)

\* the iteration of the tagsToRemove.forEach loop without lines 428-430: the
\* tag node stays in the map
removeTagKeepsNode(filePath, tag, t2n) ==
  IF ~has(t2n, tag) THEN t2n
  ELSE [t2n EXCEPT ![tag].filePaths = pull(@, filePath)]

\* one iteration of the tagsToRemove.forEach loop (lines 423-432)
removeTag(filePath, tag, t2n) ==
  IF ~has(t2n, tag) THEN t2n
  ELSE LET t1 == [t2n EXCEPT ![tag].filePaths = pull(@, filePath)]
       IN IF t1[tag].filePaths = <<>> /\ t1[tag].childTags = <<>>
          THEN unset(t1, tag)
          ELSE t1

RECURSIVE removeTags(_, _, _)
removeTags(filePath, tags, t2n) ==
  IF tags = <<>> THEN t2n
  ELSE removeTags(filePath, Tail(tags), removeTag(filePath, Head(tags), t2n))

TagSuspended(filePath, kind, shouldUpdate) ==
  [filePath |-> filePath, kind |-> kind, shouldUpdate |-> shouldUpdate, read |-> "pending",
   content |-> <<>>]

\* updateTagsForFile up to its await (lines 395-405), applied to the record
\* <<filePathTofileNodeMap, tpending>>
tagUpdateStart(filePath, kind, g) ==
  IF ~tagMatchesWatchedFileExtensions(filePath) THEN g
  ELSE LET fresh == ~has(g.filePathTofileNodeMap, filePath)
           f2n == IF fresh
                  THEN Put(g.filePathTofileNodeMap, filePath, NewFileNode(filePath))
                  ELSE g.filePathTofileNodeMap
       IN [filePathTofileNodeMap |-> f2n,
           tpending |-> Suspend(g.tpending, TagSuspended(filePath, kind, fresh))]

RECURSIVE tagUpdateStartAll(_, _)
tagUpdateStartAll(uris, g) ==
  IF uris = <<>> THEN g
  ELSE tagUpdateStartAll(Tail(uris), tagUpdateStart(Head(uris), "scan", g))

TagCurrent == [filePathTofileNodeMap |-> filePathTofileNodeMap, tpending |-> tpending]

\* one more file-system event (or scan) happens, starting at most n updates
TagEvent(n) == /\ tevents' = tevents + 1
               /\ BagCardinality(tpending) + n <= MaxTagPending

GraphUnchanged ==
  UNCHANGED <<disk, nodeIndex, nameToEdgesMap, edgeToSourcesMap, pending, scanned, events>>

\* initTags: findFiles resolves and every file's update runs to its await
InitTags ==
  /\ ~tscanned
  /\ TagEvent(Cardinality({p \in tagFindFiles(tdisk) : tagMatchesWatchedFileExtensions(p)}))
  /\ \E uris \in Perms(tagFindFiles(tdisk)) :
       LET g == tagUpdateStartAll(uris, TagCurrent)
       IN /\ filePathTofileNodeMap' = g.filePathTofileNodeMap
          /\ tpending' = g.tpending
  /\ tscanned' = TRUE
  /\ last' = Step("initTags", NoPath, 0, FALSE)
  /\ UNCHANGED <<tdisk, tagToTagNodeMap>>
  /\ GraphUnchanged

\* the file is saved with `content`; the onDidSaveTextDocument listener
TagSaveFile(filePath, content) ==
  /\ IsDefined(tdisk[filePath])
  /\ TagEvent(1)
  /\ tdisk' = [tdisk EXCEPT ![filePath] = Some(content)]
  /\ LET g == tagUpdateStart(filePath, "save", TagCurrent)
     IN /\ filePathTofileNodeMap' = g.filePathTofileNodeMap
        /\ tpending' = g.tpending
  /\ last' = SaveStep(filePath, content)
  /\ UNCHANGED <<tagToTagNodeMap, tscanned>>
  /\ GraphUnchanged

\* the file is created with `content`: the tag variant's constructor
\* registers no listener for it
TagCreateFile(filePath, content) ==
  /\ ~IsDefined(tdisk[filePath])
  /\ TagEvent(0)
  /\ tdisk' = [tdisk EXCEPT ![filePath] = Some(content)]
  /\ last' = Step("create", filePath, 0, FALSE)
  /\ UNCHANGED <<tagToTagNodeMap, filePathTofileNodeMap, tpending, tscanned>>
  /\ GraphUnchanged

\* the file is deleted: the tag variant's constructor registers no listener
\* for it
TagDeleteFile(filePath) ==
  /\ IsDefined(tdisk[filePath])
  /\ TagEvent(0)
  /\ tdisk' = [tdisk EXCEPT ![filePath] = Undefined]
  /\ last' = Step("delete", filePath, 0, FALSE)
  /\ UNCHANGED <<tagToTagNodeMap, filePathTofileNodeMap, tpending, tscanned>>
  /\ GraphUnchanged

\* fs.promises.readFile of a suspended update completes with the file's content
TagReadFile(u) ==
  /\ BagIn(u, tpending)
  /\ u.read = "pending"
  /\ IsDefined(tdisk[u.filePath])
  /\ tpending' = Suspend(Unsuspend(tpending, u),
                         [u EXCEPT !.read = "done", !.content = tdisk[u.filePath][1]])
  /\ last' = ReadStep(u.filePath)
  /\ UNCHANGED <<tdisk, tagToTagNodeMap, filePathTofileNodeMap, tscanned, tevents>>
  /\ GraphUnchanged

\* fs.promises.readFile fails (the file is gone, or cannot be read): the await
\* throws and the update ends there
TagReadFileFails(u) ==
  /\ BagIn(u, tpending)
  /\ u.read = "pending"
  /\ tpending' = Unsuspend(tpending, u)
  /\ last' = [ResumeStep(u, u.filePath, 0, TRUE) EXCEPT !.op = "readFails"]
  /\ UNCHANGED <<tdisk, tagToTagNodeMap, filePathTofileNodeMap, tscanned, tevents>>
  /\ GraphUnchanged

\* updateTagsForFile after its await without line 410: the file node keeps
\* the tags it held
tagUpdateResumeKeepsTags(u, t2n, f2n) ==
  LET filePath == u.filePath
      tags == getTagsFromFileOnFileSystem(u.content)
      tagsToAdd == lodashDifference(tags, f2n[filePath].tags)
      tagsToRemove == lodashDifference(f2n[filePath].tags, tags)
      changed == Len(tagsToAdd) > 0 \/ Len(tagsToRemove) > 0
      t2n1 == removeTags(filePath, tagsToRemove, addTags(filePath, tagsToAdd, t2n))
  IN [tagToTagNodeMap |-> t2n1, filePathTofileNodeMap |-> f2n,
      fired |-> IF u.shouldUpdate \/ changed THEN 1 ELSE 0]

\* updateTagsForFile after its await (lines 405-437) as a result record; the
\* file node is the object the map holds, read after the await
tagUpdateResume(u, t2n, f2n) ==
  LET filePath == u.filePath
      tags == getTagsFromFileOnFileSystem(u.content)
      tagsToAdd == lodashDifference(tags, f2n[filePath].tags)
      tagsToRemove == lodashDifference(f2n[filePath].tags, tags)
      changed == Len(tagsToAdd) > 0 \/ Len(tagsToRemove) > 0
      f2n1 == IF changed THEN [f2n EXCEPT ![filePath].tags = tags] ELSE f2n
      t2n1 == removeTags(filePath, tagsToRemove, addTags(filePath, tagsToAdd, t2n))
  IN [tagToTagNodeMap |-> t2n1, filePathTofileNodeMap |-> f2n1,
      fired |-> IF u.shouldUpdate \/ changed THEN 1 ELSE 0]

\* a suspended update whose read completed resumes and runs to its end
TagResumeUpdate(u) ==
  /\ BagIn(u, tpending)
  /\ u.read = "done"
  /\ LET r == tagUpdateResume(u, tagToTagNodeMap, filePathTofileNodeMap)
     IN /\ tagToTagNodeMap' = r.tagToTagNodeMap
        /\ filePathTofileNodeMap' = r.filePathTofileNodeMap
        /\ last' = ResumeStep(u, u.filePath, r.fired, FALSE)
  /\ tpending' = Unsuspend(tpending, u)
  /\ UNCHANGED <<tdisk, tscanned, tevents>>
  /\ GraphUnchanged

\* the graph variant is not running
GraphIdle ==
  /\ disk = <<>>
  /\ nodeIndex = <<>>
  /\ nameToEdgesMap = <<>>
  /\ edgeToSourcesMap = <<>>
  /\ pending = EmptyBag
  /\ scanned = FALSE
  /\ events = 0

\* lodash union(array, [value])
unionWith(array, value) == IF value \in Range(array) THEN array ELSE Append(array, value)

\* onDrop's forEach over the dragged items (lines 517-524): `items` are the
\* parsed copies of the dragged nodes, `childTags` the target's list
RECURSIVE dropItems(_, _)
dropItems(items, childTags) ==
  IF items = <<>> THEN childTags
  ELSE dropItems(Tail(items),
                 IF "childTags" \in DOMAIN Head(items)
                 THEN unionWith(childTags, Head(items).name)
                 ELSE childTags)

\* the nodes the tree shows, any of which can be dragged
TreeNodes == {tagToTagNodeMap[t] : t \in DOMAIN tagToTagNodeMap}
               \cup {filePathTofileNodeMap[f] : f \in DOMAIN filePathTofileNodeMap}

\* the lists of one or two nodes that are dragged together
Dragged == {<<n>> : n \in TreeNodes}
             \cup {pair \in TreeNodes \X TreeNodes : pair[1] # pair[2]}

\* onDrop (lines 508-527) of the dragged nodes onto the tag node `target` of
\* the index
TagOnDropOnTag(target, items) ==
  /\ has(tagToTagNodeMap, target)
  /\ TagEvent(0)
  /\ tagToTagNodeMap' =
       [tagToTagNodeMap EXCEPT ![target].childTags = dropItems(items, @)]
  /\ last' = Step("drop", NoPath, 1, FALSE)
  /\ UNCHANGED <<tdisk, filePathTofileNodeMap, tpending, tscanned>>
  /\ GraphUnchanged

\* onDrop of the dragged nodes onto a file node: line 516 is false
TagOnDropOnFile(target, items) ==
  /\ has(filePathTofileNodeMap, target)
  /\ TagEvent(0)
  /\ last' = Step("drop", target, 0, FALSE)
  /\ UNCHANGED <<tdisk, tagToTagNodeMap, filePathTofileNodeMap, tpending, tscanned>>
  /\ GraphUnchanged

\* the workspace when the extension is activated
TagDisks == {d \in [TagPaths -> {Undefined} \cup {Some(c) : c \in TagContents}] :
               \A p \in TagPaths : IsDefined(d[p]) => d[p][1] \in TagContentsOf(p)}

TagInit ==
  /\ GraphIdle
  /\ tdisk \in TagDisks
  /\ tagToTagNodeMap = <<>>
  /\ filePathTofileNodeMap = <<>>
  /\ tpending = EmptyBag
  /\ tscanned = FALSE
  /\ tevents = 0
  /\ last = Step("init", NoPath, 0, FALSE)

TagNext ==
  \/ tevents < MaxTagEvents /\ InitTags
  \/ tevents < MaxTagEvents
       /\ \E p \in TagPaths : \E c \in TagContentsOf(p) : TagSaveFile(p, c)
  \/ tevents < MaxTagEvents
       /\ \E p \in TagPaths : \E c \in TagContentsOf(p) : TagCreateFile(p, c)
  \/ tevents < MaxTagEvents /\ \E p \in TagPaths : TagDeleteFile(p)
  \/ tevents < MaxTagEvents
       /\ \E t \in {"alpha", "beta"} : \E items \in Dragged : TagOnDropOnTag(t, items)
  \/ tevents < MaxTagEvents
       /\ \E p \in TagPaths : \E items \in Dragged : TagOnDropOnFile(p, items)
  \/ \E u \in BagToSet(tpending) : TagReadFile(u)
  \/ \E u \in BagToSet(tpending) : TagReadFileFails(u)
  \/ \E u \in BagToSet(tpending) : TagResumeUpdate(u)

SpecTag == TagInit /\ [][TagNext]_vars

(***************************************************************************)
(* Vocabulary of the properties                                            *)
(***************************************************************************)
Names == {"a", "b", "c", "x", "y"}

EdgeStrings == {EdgeString(from, to) : from \in Names, to \in Names}

\* getNodes, as the set of the names of the nodes it returns
getNodes == DOMAIN nodeIndex

\* the edge is in the adjacency lists of both its endpoints
InAdjacency(edge) ==
  LET from == SplitEdge(edge)[1]
      to == SplitEdge(edge)[2]
  IN /\ has(nodeIndex, from) /\ to \in Range(nodeIndex[from].out)
     /\ has(nodeIndex, to) /\ from \in Range(nodeIndex[to].in)

\* the edge is in the adjacency list of one of its endpoints
InSomeAdjacency(edge) ==
  LET from == SplitEdge(edge)[1]
      to == SplitEdge(edge)[2]
  IN \/ has(nodeIndex, from) /\ to \in Range(nodeIndex[from].out)
     \/ has(nodeIndex, to) /\ from \in Range(nodeIndex[to].in)

\* the attribution set of the edge
Sources(edge) == IF has(edgeToSourcesMap, edge) THEN edgeToSourcesMap[edge] ELSE {}

\* the edges attributed to the file name
AttributedTo(name) == {e \in DOMAIN edgeToSourcesMap : name \in edgeToSourcesMap[e]}

\* the file name is tracked, and its cache holds the edge
Cached(name, edge) == has(nameToEdgesMap, name) /\ edge \in Range(nameToEdgesMap[name])

\* a tracked file declares the edge: it is in the file's cache and the file in
\* the edge's attribution set
Declares(name, edge) == Cached(name, edge) /\ name \in Sources(edge)

(***************************************************************************)
(* C1                                                                      *)
(***************************************************************************)
\* C1: in every reachable state of the graph variant, an edge from->to has a
\* non-empty attribution set in edgeToSourcesMap if and only if `to` is in
\* nodeIndex[from].out and `from` is in nodeIndex[to].in; no entry of the map
\* is empty, and an edge is never in only one of the two lists.
AttributionLockstep ==
  /\ DOMAIN edgeToSourcesMap \subseteq EdgeStrings
  /\ DOMAIN nodeIndex \subseteq Names
  /\ \A e \in EdgeStrings :
       /\ (has(edgeToSourcesMap, e) /\ edgeToSourcesMap[e] # {}) <=> InAdjacency(e)
       /\ has(edgeToSourcesMap, e) => edgeToSourcesMap[e] # {}
       /\ InSomeAdjacency(e) => InAdjacency(e)

\* a delete has left an edge that another file still declares, and has
\* removed one that no file declares any more
AttributionLockstepWitness ==
  /\ last.op = "delete" /\ ~last.raised
  /\ \E e \in EdgeStrings : Sources(e) # {} /\ InAdjacency(e)
  /\ \E e \in EdgeStrings : Sources(e) = {} /\ ~InSomeAdjacency(e)
                            /\ SplitEdge(e)[1] \in getNodes /\ SplitEdge(e)[2] \in getNodes

(***************************************************************************)
(* C2                                                                      *)
(***************************************************************************)
\* the step is the delete event of the file p
IsDelete(p) == last'.op = "delete" /\ last'.path = p /\ events' = events + 1

\* C2: if two tracked files A and B both declare the edge x->y, then after
\* the delete of A the edge is still in both adjacency lists and its
\* attribution set is {B}; and after the delete of the other one as well, which
\* is then the only declarer, the edge is in neither list nor in the
\* attribution map.
SharedEdgeSurvivesOneDelete ==
  [][\A p \in Paths :
       IsDelete(p) /\ ~ignoreFile(p) =>
         \A q \in Paths \ {p}, e \in EdgeStrings :
           LET A == getBasename(p)
               B == getBasename(q)
           IN /\ (/\ A # B /\ ~ignoreFile(q)
                  /\ Declares(A, e) /\ Declares(B, e) /\ Sources(e) = {A, B})
                 => (InAdjacency(e)' /\ Sources(e)' = {B})
              /\ (/\ A # B /\ ~ignoreFile(q)
                  /\ last.op = "delete" /\ last.path = q /\ ~has(nameToEdgesMap, B)
                  /\ Declares(A, e) /\ Sources(e) = {A})
                 => (~InSomeAdjacency(e)' /\ ~has(edgeToSourcesMap, e)')]_vars

(***************************************************************************)
(* C3                                                                      *)
(***************************************************************************)
\* the tag index holds foo.ts with the tags `tags`, each declared by foo.ts
\* alone, and nothing else
FooIndex(tags) ==
  /\ DOMAIN filePathTofileNodeMap = {PathFoo}
  /\ filePathTofileNodeMap[PathFoo].tags = tags
  /\ DOMAIN tagToTagNodeMap = Range(tags)
  /\ \A t \in Range(tags) : tagToTagNodeMap[t].filePaths = <<PathFoo>>
                            /\ tagToTagNodeMap[t].childTags = <<>>

\* C3: the update of the initial scan of foo.ts, holding #[alpha] and #[beta],
\* leaves getTags() = {alpha, beta}; the update of the save of foo.ts with
\* #[alpha] alone then leaves getTags() = {alpha}; the delete of foo.ts then
\* leaves getTags() = {}.
AlphaBetaScenario ==
  [][/\ \A u \in BagToSet(tpending) :
          (/\ TagResumeUpdate(u) /\ u.filePath = PathFoo /\ u.kind = "scan"
           /\ u.content = TAlphaBeta /\ FooIndex(<<>>))
          => getTags' = {"alpha", "beta"}
     /\ \A u \in BagToSet(tpending) :
          (/\ TagResumeUpdate(u) /\ u.filePath = PathFoo /\ u.kind = "save"
           /\ u.content = TAlpha /\ FooIndex(TAlphaBeta))
          => getTags' = {"alpha"}
     /\ (TagDeleteFile(PathFoo) /\ tpending = EmptyBag /\ FooIndex(TAlpha))
          => getTags' = {}]_vars

(***************************************************************************)
(* C4                                                                      *)
(***************************************************************************)
\* the step ends the update u of the graph variant
Resumes(u) == BagIn(u, pending) /\ u.read = "done" /\ last'.op = "resume"
              /\ pending' = Unsuspend(pending, u)

\* what the update u extracted from its file
Extracted(u) == Range(extractEdgesFromFile(u.uri, u.content))

\* C4: when the update of a discovery (initial scan, create event or rename
\* target) ends, every edge extracted from the file is attributed to the
\* file's name and the file's cache is the extracted set, whatever the index
\* held before (no other update is in flight).
DiscoveryAttributesEveryEdge ==
  [][\A u \in BagToSet(pending) :
       (/\ Resumes(u) /\ u.kind \in {"scan", "create", "rename"}
        /\ u.alone /\ BagCardinality(pending) = 1) =>
         LET f == getBasename(u.uri)
         IN /\ \A e \in Extracted(u) : f \in Sources(e)'
            /\ has(nameToEdgesMap', f)
            /\ Range(nameToEdgesMap'[f]) = Extracted(u)]_vars

(***************************************************************************)
(* C5                                                                      *)
(***************************************************************************)
\* some edge of the attribution map has the name as an endpoint
Referenced(name) ==
  \E e \in DOMAIN edgeToSourcesMap : name \in Range(SplitEdge(e))

\* C5: after the delete event of a tracked file f, every edge whose only
\* declarer was f is gone, f has no cache entry, and no node for f is left
\* unless an edge still references the name (no update is in flight at the
\* event).
DeleteDropsFileRecord ==
  [][\A p \in Paths :
       LET f == getBasename(p)
       IN (/\ IsDelete(p) /\ ~ignoreFile(p) /\ has(nameToEdgesMap, f)
           /\ pending = EmptyBag) =>
            /\ \A e \in EdgeStrings :
                 Sources(e) = {f} => (~has(edgeToSourcesMap, e)' /\ ~InSomeAdjacency(e)')
            /\ ~has(nameToEdgesMap, f)'
            /\ (f \in getNodes' => Referenced(f)')]_vars

(***************************************************************************)
(* C6                                                                      *)
(***************************************************************************)
\* C6: the rename of a tracked file old -> new leaves the index as a delete
\* of old and a fresh discovery of new do: after the event no edge is
\* attributed to old's name (when the names differ), and when the update of
\* new ends, exactly the edges extracted from new are attributed to new's
\* name and cached for it.
RenameIsDeleteThenDiscovery ==
  [][/\ \A r \in Renames :
          LET old == getBasename(r[1])
              new == getBasename(r[2])
          IN (/\ last'.op = "rename" /\ last'.path = r[1] /\ events' = events + 1
              /\ ~IsDefined(disk'[r[1]]) /\ IsDefined(disk'[r[2]]) /\ ~IsDefined(disk[r[2]])
              /\ ~ignoreFile(r[1]) /\ ~ignoreFile(r[2])
              /\ has(nameToEdgesMap, old) /\ old # new /\ pending = EmptyBag)
             => AttributedTo(old)' = {}
     /\ \A u \in BagToSet(pending) :
          (/\ Resumes(u) /\ u.kind = "rename" /\ ~ignoreFile(u.old)
           /\ u.alone /\ BagCardinality(pending) = 1)
          => LET new == getBasename(u.uri)
             IN /\ AttributedTo(new)' = Extracted(u)
                /\ has(nameToEdgesMap', new)
                /\ Range(nameToEdgesMap'[new]) = Extracted(u)]_vars

(***************************************************************************)
(* C7                                                                      *)
(***************************************************************************)
\* C7: when two save events of one file overlap and their updates end one
\* right after the other, neither update throws, and the file's cache and
\* the edges attributed to it agree afterwards, as they do when the two
\* updates run one after the other.
OverlappingSavesSerializable ==
  [][\A u \in BagToSet(pending) :
       LET f == getBasename(u.uri)
       IN (/\ Resumes(u) /\ u.kind = "save" /\ IsDefined(u.prevEdges)
           /\ last.op = "resume" /\ last.kind = "save" /\ last.path = u.uri
           /\ ~last.raised
           /\ has(nameToEdgesMap, f) /\ AttributedTo(f) = Range(nameToEdgesMap[f])
           /\ BagCardinality(pending) = 1)
          => /\ ~last'.raised
             /\ has(nameToEdgesMap', f)
             /\ AttributedTo(f)' = Range(nameToEdgesMap'[f])]_vars

(***************************************************************************)
(* C8                                                                      *)
(***************************************************************************)
\* C8: an update of f that was suspended at its read while the delete event
\* of f was processed (f had a cache entry when the update began, and has
\* neither a cache entry nor a file now) ends as a no-op: it does not throw,
\* recreates no cache entry, and changes neither the attribution map nor the
\* node index.
UpdateAfterDeleteIsNoOp ==
  [][\A u \in BagToSet(pending) :
       LET f == getBasename(u.uri)
       IN (/\ Resumes(u) /\ IsDefined(u.prevEdges)
           /\ ~has(nameToEdgesMap, f) /\ ~IsDefined(disk[u.uri]))
          => /\ ~last'.raised
             /\ ~has(nameToEdgesMap', f)
             /\ edgeToSourcesMap' = edgeToSourcesMap
             /\ nodeIndex' = nodeIndex]_vars

(***************************************************************************)
(* Either variant is running                                               *)
(***************************************************************************)
EitherInit == Init \/ TagInit

EitherNext ==
  \/ disk # <<>> /\ Next
  \/ tdisk # <<>> /\ TagNext

SpecEither == EitherInit /\ [][EitherNext]_vars

(***************************************************************************)
(* C9                                                                      *)
(***************************************************************************)
\* the watched files of the workspace
Watched == {p \in Paths : IsDefined(disk[p]) /\ ~ignoreFile(p)}

\* the names of the watched files that declare the edge
Declarers(edge) ==
  {getBasename(p) : p \in {q \in Watched :
                             edge \in Range(extractEdgesFromFile(q, disk[q][1]))}}

DeclaredEdges == {e \in EdgeStrings : Declarers(e) # {}}

ScanDone == scanned /\ pending = EmptyBag

DistinctNames == \A p, q \in Watched : getBasename(p) = getBasename(q) => p = q

\* C9: once every update of the initial scan has ended (distinct file names,
\* every read succeeded), whatever the order of the file list and of the
\* reads: no update threw, the attribution map maps exactly the declared
\* edges, each to the set of files declaring it, the nodes are exactly the
\* files and the endpoints of the declared edges, and every in/out list
\* holds, in some order, exactly the declared neighbours.
ScanOrderIndependent ==
  (ScanDone /\ DistinctNames) =>
    /\ ~last.raised
    /\ DOMAIN edgeToSourcesMap = DeclaredEdges
    /\ \A e \in DeclaredEdges : edgeToSourcesMap[e] = Declarers(e)
    /\ getNodes = {getBasename(p) : p \in Watched}
                    \cup UNION {Range(SplitEdge(e)) : e \in DeclaredEdges}
    /\ \A n \in getNodes :
         /\ Range(nodeIndex[n].out) = {t \in Names : EdgeString(n, t) \in DeclaredEdges}
         /\ Range(nodeIndex[n].in) = {f \in Names : EdgeString(f, n) \in DeclaredEdges}
         /\ Len(nodeIndex[n].out) = Cardinality(Range(nodeIndex[n].out))
         /\ Len(nodeIndex[n].in) = Cardinality(Range(nodeIndex[n].in))

\* both files declare x->y and the edge ->b; the scan ended with b's own
\* edge entered in b's `in` list before a's
ScanOrderIndependentWitness ==
  /\ ScanDone /\ DistinctNames
  /\ Watched = TwoFiles
  /\ has(edgeToSourcesMap, EdgeString("x", "y"))
  /\ edgeToSourcesMap[EdgeString("x", "y")] = {"a", "b"}
  /\ has(nodeIndex, "b") /\ nodeIndex["b"].in = <<"b", "a">>

(***************************************************************************)
(* C10                                                                     *)
(***************************************************************************)
\* the step is the failure of the read of the update u
Fails(u) == BagIn(u, pending) /\ u.read = "pending" /\ last'.op = "readFails"
            /\ pending' = Unsuspend(pending, u)

TagFails(u) == BagIn(u, tpending) /\ u.read = "pending" /\ last'.op = "readFails"
               /\ tpending' = Unsuspend(tpending, u)

\* the step is the save or create event of the watched file p
Dispatches(p) == /\ last'.op \in {"save", "create"} /\ last'.path = p
                 /\ events' = events + 1 /\ ~ignoreFile(p)

TagDispatches(p) == /\ last'.op = "save" /\ last'.path = p
                    /\ tevents' = tevents + 1 /\ tagMatchesWatchedFileExtensions(p)

\* C10 as stated: after the failure of the read of an update the index is
\* the one before the event (the failure changes nothing, and the record of
\* the file is absent if it was absent before the event), and nothing is
\* fired.
ReadFailureRestoresIndex ==
  [][/\ \A u \in BagToSet(pending) :
          Fails(u) =>
            /\ UNCHANGED <<nodeIndex, nameToEdgesMap, edgeToSourcesMap>>
            /\ last'.fired = 0
            /\ (u.shouldUpdate => ~has(nodeIndex', getBasename(u.uri)))
     /\ \A u \in BagToSet(tpending) :
          TagFails(u) =>
            /\ UNCHANGED <<tagToTagNodeMap, filePathTofileNodeMap>>
            /\ last'.fired = 0
            /\ (u.shouldUpdate => ~has(filePathTofileNodeMap', u.filePath))]_vars

\* C10, amended: the failure of the read of an update changes nothing in the
\* index and fires nothing; what the event did before the read stays: nothing
\* for a file that had a record, and for a file that had none the record
\* created for it (graph variant: its node and an empty cache entry; tag
\* variant: its file node without tags), every other entry being untouched.
ReadFailureKeepsIndex ==
  [][/\ \A u \in BagToSet(pending) :
          Fails(u) =>
            /\ UNCHANGED <<nodeIndex, nameToEdgesMap, edgeToSourcesMap>>
            /\ last'.fired = 0
            /\ (u.shouldUpdate => has(nodeIndex', getBasename(u.uri)))
     /\ \A u \in BagToSet(tpending) :
          TagFails(u) =>
            /\ UNCHANGED <<tagToTagNodeMap, filePathTofileNodeMap>>
            /\ last'.fired = 0
            /\ (u.shouldUpdate => has(filePathTofileNodeMap', u.filePath))
     /\ \A p \in Paths :
          Dispatches(p) =>
            LET f == getBasename(p)
            IN /\ edgeToSourcesMap' = edgeToSourcesMap
               /\ IF has(nodeIndex, f)
                  THEN nodeIndex' = nodeIndex /\ nameToEdgesMap' = nameToEdgesMap
                  ELSE /\ nodeIndex' = Put(nodeIndex, f, FileNode(p, f))
                       /\ nameToEdgesMap' = Put(nameToEdgesMap, f, <<>>)
     /\ \A p \in TagPaths :
          TagDispatches(p) =>
            /\ tagToTagNodeMap' = tagToTagNodeMap
            /\ IF has(filePathTofileNodeMap, p)
               THEN filePathTofileNodeMap' = filePathTofileNodeMap
               ELSE filePathTofileNodeMap' = Put(filePathTofileNodeMap, p, NewFileNode(p))]_vars

\* the read of the first discovery of a.ts has failed: the index holds the
\* node of a.ts and its empty cache entry, and nothing else
ReadFailureKeepsIndexWitness ==
  /\ last.op = "readFails" /\ last.kind = "create" /\ last.path = PathA
  /\ last.fired = 0
  /\ pending = EmptyBag
  /\ DOMAIN nodeIndex = {"a"} /\ nodeIndex["a"] = FileNode(PathA, "a")
  /\ DOMAIN nameToEdgesMap = {"a"} /\ nameToEdgesMap["a"] = <<>>
  /\ edgeToSourcesMap = <<>>

(***************************************************************************)
(* C11                                                                     *)
(***************************************************************************)
\* the step is the rename event r[1] -> r[2]
IsRename(r) == /\ last'.op = "rename" /\ last'.path = r[1] /\ events' = events + 1
               /\ ~IsDefined(disk'[r[1]]) /\ IsDefined(disk'[r[2]]) /\ ~IsDefined(disk[r[2]])

\* C11: the delete event of a watched file that has no cache entry (never
\* discovered, or deleted before) does not throw and changes no node, cache
\* or attribution entry; and the rename of such a file does not throw either
\* and starts the update of the new path.
UntrackedDeleteIsNoOp ==
  [][/\ \A p \in Paths :
          (IsDelete(p) /\ ~ignoreFile(p) /\ ~has(nameToEdgesMap, getBasename(p)))
          => /\ ~last'.raised
             /\ UNCHANGED <<nodeIndex, nameToEdgesMap, edgeToSourcesMap>>
     /\ \A r \in Renames :
          (/\ IsRename(r) /\ ~ignoreFile(r[1]) /\ ~ignoreFile(r[2])
           /\ ~has(nameToEdgesMap, getBasename(r[1])))
          => /\ ~last'.raised
             /\ edgeToSourcesMap' = edgeToSourcesMap
             /\ \E u \in BagToSet(pending') :
                  /\ u.uri = r[2] /\ u.kind = "rename" /\ u.old = r[1]
                  /\ CopiesIn(u, pending') = CopiesIn(u, pending) + 1]_vars

(***************************************************************************)
(* Graph variant: the tree view                                            *)
(***************************************************************************)
\* the names in the order in which sortBy compares them
NameOrder == <<"a", "b", "c", "x", "y">>

NameRank(name) == CHOOSE i \in 1..Len(NameOrder) : NameOrder[i] = name

\* lodash sortBy(nodes, ({ name }) => name): a stable sort; insertion of the
\* node after the last element that is not greater
RECURSIVE sortByNameInsert(_, _)
sortByNameInsert(sorted, node) ==
  IF sorted = <<>> THEN <<node>>
  ELSE IF NameRank(sorted[Len(sorted)].name) <= NameRank(node.name)
       THEN Append(sorted, node)
       ELSE Append(sortByNameInsert(SubSeq(sorted, 1, Len(sorted) - 1), node),
                   sorted[Len(sorted)])

RECURSIVE sortByNameFrom(_, _)
sortByNameFrom(nodes, sorted) ==
  IF nodes = <<>> THEN sorted
  ELSE sortByNameFrom(Tail(nodes), sortByNameInsert(sorted, Head(nodes)))

sortByName(nodes) == sortByNameFrom(nodes, <<>>)

\* sortNodes: the tag nodes by name, then the file nodes by name
sortNodes(nodes) ==
  LET tag(node) == ~("uri" \in DOMAIN node)
      file(node) == "uri" \in DOMAIN node
  IN sortByName(SelectSeq(nodes, tag)) \o sortByName(SelectSeq(nodes, file))

\* lodash values(object); the order of the keys is not kept by the model, and
\* every caller sorts the result or uses it as a set
values(obj) ==
  LET present(name) == has(obj, name)
      keys == SelectSeq(NameOrder, present)
  IN [i \in 1..Len(keys) |-> obj[keys[i]]]

\* lodash intersection(array, other): the unique elements of `array` that are
\* in `other`, in the order of `array`
RECURSIVE intersectionFrom(_, _, _)
intersectionFrom(array, other, acc) ==
  IF array = <<>> THEN acc
  ELSE intersectionFrom(Tail(array), other,
         IF Head(array) \in Range(other) /\ Head(array) \notin Range(acc)
         THEN Append(acc, Head(array)) ELSE acc)

intersection(array, other) == intersectionFrom(array, other, <<>>)

\* names.map((name) => this.nodeIndex[name])
nodesOf(names) == [i \in 1..Len(names) |-> nodeIndex[names[i]]]

\* getChildren(element); `element` is undefined for the root
getChildren(element) ==
  IF ~IsDefined(element) THEN sortNodes(values(nodeIndex))
  ELSE LET inAndOutNodes == nodesOf(intersection(element[1].in, element[1].out))
           inNodes == nodesOf(element[1].in)
           outNodes == nodesOf(element[1].out)
       IN sortNodes(inAndOutNodes) \o sortNodes(inNodes) \o sortNodes(outNodes)

\* the names of the nodes of a list of nodes
NamesOf(nodes) == {nodes[i].name : i \in 1..Len(nodes)}

(***************************************************************************)
(* C12                                                                     *)
(***************************************************************************)
\* the node of that name is not a file's and has an edge
TagNodeWithEdges(name) ==
  /\ has(nodeIndex, name) /\ ~isFileNode(nodeIndex[name])
  /\ ~has(nameToEdgesMap, name)
  /\ (nodeIndex[name].in # <<>> \/ nodeIndex[name].out # <<>>)

\* the node of that name is there with empty in and out lists
Edgeless(name) ==
  has(nodeIndex, name) /\ nodeIndex[name].in = <<>> /\ nodeIndex[name].out = <<>>

\* the step ends the update of a save, or is a delete event
SaveOrDeleteEnds ==
  \/ last'.op = "resume" /\ last'.kind = "save" /\ pending' # pending
  \/ last'.op = "delete" /\ events' = events + 1

\* C12: when a save or a delete takes the last edge of a node that is not a
\* file's, the node is pruned: it is no longer in getNodes() nor in the root
\* getChildren().
EdgelessTagNodePruned ==
  [][\A n \in Names :
       (SaveOrDeleteEnds /\ ~last'.raised /\ TagNodeWithEdges(n)) =>
         /\ ~Edgeless(n)'
         /\ (n \in NamesOf(getChildren(Undefined))' => ~Edgeless(n)')]_vars

(***************************************************************************)
(* C13                                                                     *)
(***************************************************************************)
\* C13: every tag of getTags() has a declaring file or a child tag.
NoEmptyTag ==
  \A t \in getTags :
    tagToTagNodeMap[t].filePaths # <<>> \/ tagToTagNodeMap[t].childTags # <<>>

\* the update of a save has just taken the last file of alpha and of beta:
\* alpha, which has beta as child tag, is kept, and beta is pruned
NoEmptyTagWitness ==
  /\ last.op = "resume" /\ last.kind = "save"
  /\ getTags = {"alpha"}
  /\ tagToTagNodeMap["alpha"].filePaths = <<>>
  /\ tagToTagNodeMap["alpha"].childTags = <<"beta">>
  /\ \E p \in DOMAIN filePathTofileNodeMap : filePathTofileNodeMap[p].tags = <<>>

(***************************************************************************)
(* C14                                                                     *)
(***************************************************************************)
\* the step ends the update u of the tag variant
TagResumes(u) == BagIn(u, tpending) /\ u.read = "done" /\ last'.op = "resume"
                 /\ tpending' = Unsuspend(tpending, u)

\* the update about to end is the second of two updates of the file in
\* sequence: the save that began it came right after the end of an update of
\* the file that had read the same content, and its read came right after
\* that save
SecondInSequence(path) == last.op = "read" /\ last.path = path /\ last.again

\* C14: the second of two updates in sequence of a file with unchanged
\* content finds nothing to add and nothing to remove, changes no index state
\* and fires no notification.
ReextractionIdempotent ==
  [][/\ \A u \in BagToSet(pending) :
          (/\ Resumes(u) /\ u.kind = "save" /\ SecondInSequence(u.uri)
           /\ BagCardinality(pending) = 1)
          => /\ IsDefined(u.prevEdges)
             /\ difference(extractEdgesFromFile(u.uri, u.content), u.prevEdges[1]) = <<>>
             /\ difference(u.prevEdges[1], extractEdgesFromFile(u.uri, u.content)) = <<>>
             /\ UNCHANGED <<nodeIndex, nameToEdgesMap, edgeToSourcesMap>>
             /\ last'.fired = 0 /\ ~last'.raised
     /\ \A u \in BagToSet(tpending) :
          (/\ TagResumes(u) /\ u.kind = "save" /\ SecondInSequence(u.filePath)
           /\ BagCardinality(tpending) = 1)
          => /\ lodashDifference(getTagsFromFileOnFileSystem(u.content),
                                 filePathTofileNodeMap[u.filePath].tags) = <<>>
             /\ lodashDifference(filePathTofileNodeMap[u.filePath].tags,
                                 getTagsFromFileOnFileSystem(u.content)) = <<>>
             /\ UNCHANGED <<tagToTagNodeMap, filePathTofileNodeMap>>
             /\ last'.fired = 0]_vars

\* a.ts was saved again with the content '[->b] [x->y]' it was last read with,
\* and the second update has just ended
ReextractionIdempotentWitness ==
  /\ last.op = "resume" /\ last.kind = "save" /\ last.path = PathA
  /\ last.content = KOutBXY /\ last.again /\ last.fired = 0
  /\ pending = EmptyBag
  /\ has(nameToEdgesMap, "a") /\ Len(nameToEdgesMap["a"]) = 2
  /\ AttributedTo("a") = Range(nameToEdgesMap["a"])

(***************************************************************************)
(* Specification of the graph variant over one file                        *)
(***************************************************************************)
MaxOneFileEvents == 4

KNone == <<>>                                   \* no match

OneFileContents == {KNone, KXY, KOutBXY}

\* a.ts is the only file the workspace ever holds
OneFileDisks == {d \in [Paths -> {Undefined} \cup {Some(c) : c \in OneFileContents}] :
                   \A p \in Paths \ {PathA} : ~IsDefined(d[p])}

OneFileInit == GraphInit(OneFileDisks)

OneFileNext ==
  \/ events < MaxOneFileEvents /\ InitGraph
  \/ events < MaxOneFileEvents /\ \E c \in OneFileContents : SaveFile(PathA, c)
  \/ events < MaxOneFileEvents /\ \E c \in OneFileContents : CreateFile(PathA, c)
  \/ events < MaxOneFileEvents /\ DeleteFile(PathA)
  \/ \E u \in BagToSet(pending) : ReadFile(u)
  \/ \E u \in BagToSet(pending) : ReadFileFails(u)
  \/ \E u \in BagToSet(pending) : ResumeUpdate(u)

SpecOneFile == OneFileInit /\ [][OneFileNext]_vars

(***************************************************************************)
(* C15                                                                     *)
(***************************************************************************)
\* the step adds an edge to what the file name declares: to its cache or to
\* the edges attributed to it
AddsEdge(name) ==
  \/ \E e \in AttributedTo(name)' : e \notin AttributedTo(name)
  \/ /\ has(nameToEdgesMap', name)
     /\ \E e \in Range(nameToEdgesMap'[name]) : ~Cached(name, e)

\* the step removes an edge structurally: its attribution set is gone
RemovesEdge == \E e \in DOMAIN edgeToSourcesMap : ~has(edgeToSourcesMap', e)

\* C15: the update of a save fires at most one notification, and fires it only
\* if it added an edge to what the file declares or removed an edge
\* structurally; an update that does neither fires nothing.
SaveFiresOnlyOnChange ==
  [][\A u \in BagToSet(pending) :
       Resumes(u) /\ u.kind = "save"
       => /\ last'.fired <= 1
          /\ last'.fired = 1 => AddsEdge(getBasename(u.uri)) \/ RemovesEdge]_vars

\* C15 as the code has it: the update also fires when it created the file's
\* node before its read (lines 181-194), or when an edge it extracted was not
\* in the cache it captured before its read (line 202).
SaveFiresOnChangeOrNewNode ==
  [][\A u \in BagToSet(pending) :
       Resumes(u) /\ u.kind = "save"
       => /\ last'.fired <= 1
          /\ last'.fired = 1
             => \/ AddsEdge(getBasename(u.uri))
                \/ RemovesEdge
                \/ u.shouldUpdate
                \/ /\ IsDefined(u.prevEdges)
                   /\ difference(extractEdgesFromFile(u.uri, u.content), u.prevEdges[1])
                      # <<>>]_vars

\* a save that found no match in a file the index did not know has fired
SaveFiresOnChangeOrNewNodeWitness ==
  /\ last.op = "resume" /\ last.kind = "save" /\ last.path = PathA
  /\ last.content = KNone
  /\ last.fired = 1
  /\ pending = EmptyBag
  /\ edgeToSourcesMap = <<>>
  /\ has(nodeIndex, "a")
  /\ events = 1

(***************************************************************************)
(* C16                                                                     *)
(***************************************************************************)
\* the step ends the update of a save of the file that came right after an
\* aborted update of the file and ran from its event to its end with no other
\* update in flight, and its read succeeded
SoloSaveEnds(u) == Resumes(u) /\ u.kind = "save" /\ last.solo /\ last.op = "read"
                   /\ last.path = u.uri

\* C16: when an update of a file was aborted (its read failed or it threw) and
\* the next save of the file is read successfully and runs without overlap,
\* its update ends with the edges attributed to the file's name being exactly
\* the edges extracted from the file's current content.
SaveHeals ==
  [][\A u \in BagToSet(pending) :
       SoloSaveEnds(u) => AttributedTo(getBasename(u.uri))' = Extracted(u)]_vars

(***************************************************************************)
(* C17                                                                     *)
(***************************************************************************)
\* the names adjacent to the node, by where they are listed
InAndOut(node) == Range(node.in) \cap Range(node.out)
OnlyIn(node) == Range(node.in) \ Range(node.out)
OnlyOut(node) == Range(node.out) \ Range(node.in)

\* the names of a list of nodes, in the order of the list
NameSeq(nodes) == [i \in 1..Len(nodes) |-> nodes[i].name]

\* the names in the order of NameOrder
IsSortedByName(names) ==
  \A i, j \in 1..Len(names) : i < j => NameRank(names[i]) <= NameRank(names[j])

\* the sequence is the three groups, each sorted by name, one after the other
IsThreeGroups(names, node) ==
  \E i, j \in 0..Len(names) :
    /\ i <= j
    /\ Range(SubSeq(names, 1, i)) = InAndOut(node)
    /\ Range(SubSeq(names, i + 1, j)) = OnlyIn(node)
    /\ Range(SubSeq(names, j + 1, Len(names))) = OnlyOut(node)
    /\ IsSortedByName(SubSeq(names, 1, i))
    /\ IsSortedByName(SubSeq(names, i + 1, j))
    /\ IsSortedByName(SubSeq(names, j + 1, Len(names)))

\* C17: for every node of the index, getChildren(node) returns each adjacent
\* node exactly once, as three groups sorted by name: the nodes in both `in`
\* and `out`, then the nodes only in `in`, then the nodes only in `out`.
ChildrenOnceInThreeGroups ==
  \A name \in DOMAIN nodeIndex :
    LET node == nodeIndex[name]
        children == NameSeq(getChildren(Some(node)))
    IN /\ Len(children) = Cardinality(Range(children))
       /\ Range(children) = Range(node.in) \cup Range(node.out)
       /\ IsThreeGroups(children, node)

(***************************************************************************)
(* The extractor on the text of a match                                    *)
(***************************************************************************)
\* The text of a match (match[1]) is a sequence of tokens: a name, a blank
\* " ", or the arrow "->".
RECURSIVE splitFrom(_, _, _)
splitFrom(tokens, current, acc) ==
  IF tokens = <<>> THEN Append(acc, current)
  ELSE IF Head(tokens) = "->" THEN splitFrom(Tail(tokens), <<>>, Append(acc, current))
       ELSE splitFrom(Tail(tokens), Append(current, Head(tokens)), acc)

\* match[1].split("->")
split(tokens) == splitFrom(tokens, <<>>, <<>>)

\* s.trim(), and the string the remaining tokens spell (one name at most)
RECURSIVE trim(_)
trim(segment) ==
  IF segment = <<>> THEN ""
  ELSE IF Head(segment) = " " THEN trim(Tail(segment))
       ELSE IF segment[Len(segment)] = " " THEN trim(SubSeq(segment, 1, Len(segment) - 1))
            ELSE segment[1]

\* the edges of a file whose text holds the matches `texts`, in order
extractEdgesFromText(filepath, texts) ==
  extractEdgesFromFile(filepath,
    [i \in 1..Len(texts) |-> LET parts == split(texts[i])
                             IN [k \in 1..Len(parts) |-> trim(parts[k])]])

MaxMatches == 2

\* the segments a match is written with: nothing, a blank, x, and y between
\* blanks
Segments == {<<>>, <<" ">>, <<"x">>, <<" ", "y", " ">>}

Texts == {s \o <<"->">> \o t : s \in Segments, t \in Segments}
           \cup {s \o <<"->">> \o m \o <<"->">> \o t :
                    s \in Segments, m \in Segments, t \in Segments}

TextContents == UNION {[1..n -> Texts] : n \in 0..MaxMatches}

\* one of the two files is in the workspace
ExtractDisks == {[p \in Paths |-> IF p = q THEN Some(c) ELSE Undefined] :
                   q \in TwoFiles, c \in TextContents}

ExtractInit == GraphInit(ExtractDisks)

\* extractEdgesFromFile(filepath) is called and its promise resolves
ExtractFile(filepath) ==
  /\ IsDefined(disk[filepath])
  /\ last.op = "init"
  /\ last' = [op |-> "extract", path |-> filepath, fired |-> 0, raised |-> FALSE,
              edges |-> extractEdgesFromText(filepath, disk[filepath][1])]
  /\ UNCHANGED <<disk, nodeIndex, nameToEdgesMap, edgeToSourcesMap, pending, scanned,
                 events>>
  /\ UNCHANGED tvars

ExtractNext == \E p \in TwoFiles : ExtractFile(p)

SpecExtract == ExtractInit /\ [][ExtractNext]_vars

(***************************************************************************)
(* C18                                                                     *)
(***************************************************************************)
\* the ways a segment that means the name s (or nothing, "") is written
Spellings(s) == IF s = "" THEN {<<>>, <<" ">>}
                ELSE {<<s>>, <<" ", s>>, <<s, " ">>, <<" ", s, " ">>}

SegmentNames == {"", "x", "y"}

\* the reference grammar: the edges a match means in file f
Grammar(f, text) ==
  {EdgeString(OrF[1], OrF[2]) :
     OrF \in {<<IF a = "" THEN f ELSE a, IF b = "" THEN f ELSE b>> :
                <<a, b>> \in {ab \in SegmentNames \X SegmentNames :
                   \E s \in Spellings(ab[1]), t \in Spellings(ab[2]) :
                     text = s \o <<"->">> \o t}}}
  \cup UNION {{EdgeString(f, c), EdgeString(c, f)} :
                c \in {c \in SegmentNames :
                   \E a \in SegmentNames, mid \in SegmentNames :
                     \E s \in Spellings(a), m \in Spellings(mid), t \in Spellings(c) :
                       text = s \o <<"->">> \o m \o <<"->">> \o t}}

MaxFilterEvents == 4

PathPng == Path(<<"ws", "src">>, "d", "png")       \* /ws/src/d.png

IgnoredPaths == {PathDoc, PathPng}

FilterPaths == {PathA} \cup IgnoredPaths

FilterContentsOf(p) == IF p = PathA THEN {KOutB, KXY} ELSE {KXY}

\* a.ts, docs/c.ts and src/d.png may be in the workspace
FilterDisks ==
  {d \in [Paths \cup FilterPaths -> {Undefined} \cup {Some(c) : c \in Contents}] :
     \A p \in DOMAIN d :
       IsDefined(d[p]) => p \in FilterPaths /\ d[p][1] \in FilterContentsOf(p)}

FilterInit == GraphInit(FilterDisks)

FilterRenames == {<<PathDoc, PathPng>>, <<PathPng, PathDoc>>, <<PathDoc, PathA>>,
                  <<PathA, PathDoc>>}

FilterNext ==
  \/ events < MaxFilterEvents /\ InitGraph
  \/ events < MaxFilterEvents
     /\ \E p \in FilterPaths : \E c \in FilterContentsOf(p) : SaveFile(p, c)
  \/ events < MaxFilterEvents
     /\ \E p \in FilterPaths : \E c \in FilterContentsOf(p) : CreateFile(p, c)
  \/ events < MaxFilterEvents /\ \E p \in FilterPaths : DeleteFile(p)
  \/ events < MaxFilterEvents /\ \E r \in FilterRenames : RenameFile(r[1], r[2])
  \/ \E u \in BagToSet(pending) : ReadFile(u)
  \/ \E u \in BagToSet(pending) : ReadFileFails(u)
  \/ \E u \in BagToSet(pending) : ResumeUpdate(u)

SpecFilter == FilterInit /\ [][FilterNext]_vars

(***************************************************************************)
(* C19                                                                     *)
(***************************************************************************)
\* the index holds nothing for the file, and no update of it is suspended
NoRecord(p) ==
  /\ ~has(nodeIndex, getBasename(p))
  /\ ~has(nameToEdgesMap, getBasename(p))
  /\ \A u \in BagToSet(pending) : u.uri # p

\* the step changes nothing in the index, starts no update and fires nothing
LeavesIndex ==
  /\ UNCHANGED <<nodeIndex, nameToEdgesMap, edgeToSourcesMap, pending>>
  /\ last'.fired = 0
  /\ ~last'.raised

\* C19: an event for a file outside the filter (no /src/ in its path, or an
\* extension that is not watched) changes no node, cache or attribution
\* entry, creates no record for the file and fires nothing: its save, its
\* creation, its delete and its rename to a name outside the filter change
\* nothing at all; the scan, and a rename from or to a watched name, leave no
\* record of it.
IgnoredFileLeavesIndex ==
  [][\A p \in IgnoredPaths :
       /\ last'.path = p /\ last'.op \in {"save", "create"} /\ events' = events + 1
          => LeavesIndex
       /\ IsDelete(p) => LeavesIndex
       /\ \A q \in IgnoredPaths : IsRename(<<p, q>>) => LeavesIndex
       /\ NoRecord(p) => NoRecord(p)']_vars

\* src/d.png has been renamed to docs/c.ts after a.ts was indexed
IgnoredFileLeavesIndexWitness ==
  /\ last.op = "rename" /\ last.path = PathPng
  /\ IsDefined(disk[PathDoc])
  /\ has(nodeIndex, "a") /\ has(nodeIndex, "b")
  /\ NoRecord(PathDoc) /\ NoRecord(PathPng)
  /\ scanned

(***************************************************************************)
(* C20                                                                     *)
(***************************************************************************)
\* C20: in every state of the graph variant where no update is suspended at
\* its read, a file name is in the attribution set of an edge if and only if
\* the edge is in the cache of that name.
CacheAgreesWithAttribution ==
  pending = EmptyBag
  => \A name \in Names, e \in EdgeStrings : name \in Sources(e) <=> Cached(name, e)

(***************************************************************************)
(* C21                                                                     *)
(***************************************************************************)
TagNames == {"alpha", "beta"}

\* the file record of the path lists the tag
FileHasTag(p, t) == has(filePathTofileNodeMap, p) /\ t \in Range(filePathTofileNodeMap[p].tags)

\* the tag's node lists the path
TagHasFile(t, p) == has(tagToTagNodeMap, t) /\ p \in Range(tagToTagNodeMap[t].filePaths)

\* C21: in every state of the tag variant, whatever updates overlap, a tag is
\* in the tags of the file record of a path if and only if the tag has a node
\* whose filePaths holds the path; and no filePaths list holds a path twice.
TagIndexAgrees ==
  /\ \A p \in TagPaths, t \in TagNames : FileHasTag(p, t) <=> TagHasFile(t, p)
  /\ \A t \in DOMAIN tagToTagNodeMap :
       Len(tagToTagNodeMap[t].filePaths) = Cardinality(Range(tagToTagNodeMap[t].filePaths))

\* two updates of foo.ts overlapped: both have read, each another content; one
\* has resumed and recorded its tags, the other is still suspended
TagIndexAgreesWitness ==
  /\ last.op = "resume" /\ last.path = PathFoo /\ last.kind = "save"
  /\ last.content = TAlphaBeta /\ last.fired = 1
  /\ FileHasTag(PathFoo, "alpha") /\ FileHasTag(PathFoo, "beta")
  /\ \E u \in BagToSet(tpending) :
       /\ u.filePath = PathFoo /\ u.read = "done" /\ u.kind = "save"
       /\ u.content = TBetaBeta

(***************************************************************************)
(* C22                                                                     *)
(***************************************************************************)
\* getChildren(element) of a tag node, its first part (lines 465-470):
\* element.childTags.map((tag) => this.tagToTagNodeMap[tag]), before the sort
childTagNodes(element) ==
  [i \in 1..Len(element.childTags) |-> Get(tagToTagNodeMap, element.childTags[i])]

\* C22: in every state of the tag variant, after any file updates and drops,
\* every name in the childTags of a tag node is a key of tagToTagNodeMap:
\* getChildren of the tag node maps no child name to a missing node.
NoDanglingChildTag ==
  \A t \in DOMAIN tagToTagNodeMap :
    /\ Range(tagToTagNodeMap[t].childTags) \subseteq DOMAIN tagToTagNodeMap
    /\ \A i \in 1..Len(tagToTagNodeMap[t].childTags) :
         IsDefined(childTagNodes(tagToTagNodeMap[t])[i])

====
